---- MODULE Spec2Model ----
(***************************************************************************)
(* Model of the tank-data add-on: tank_data_reader.py (fetch selector,     *)
(* record extractor, refresh pipeline, report writer) and web_server.py    *)
(* (update_data under data_lock, scheduled_update, the HTTP handlers).     *)
(*                                                                         *)
(* Python values are represented as follows.                               *)
(*   - str: a TLA+ string; file names are sequences of one-character       *)
(*     strings so that lower() and endswith() are computed.                *)
(*   - None in a text position: the string None below; a missing XML       *)
(*     element (find() returning None): the string NoElement.              *)
(*   - a dict returned by parse_xml_file: a record; its None: NoneData.    *)
(*   - the list-or-None returned by fetch_and_process_data: a record       *)
(*     [isNone, items].                                                    *)
(*   - float quantities: integers counting tenths.                         *)
(*   - datetime objects: integers (instants); 0 is 1970-01-01T00:00:00.    *)
(***************************************************************************)
EXTENDS Integers, Sequences, FiniteSets, TLC

VARIABLES
    \* ---- web_server.py process state
    pc,               \* position of every thread
    data_lock,        \* threading.Lock: the holder, or Free
    last_update_time, \* global last_update_time
    now,              \* time.time()
    report,           \* content of OUTPUT_FILE (/app/www/index.html)
    data_list,        \* per thread: local data_list of main() / api_tankdata()
    ret,              \* per thread: value returned by update_data / api_tankdata
    transport,        \* per thread: how the transport answered the current fetch
    contended,        \* per thread: this update_data call found data_lock held
    sleep_left,       \* scheduled_update: time left until time.sleep returns
    \* ---- a single call of a function of tank_data_reader.py
    input,            \* the arguments / the remote server state
    output,           \* the locals and the return value
    phase             \* position inside the call

srvVars == <<pc, data_lock, last_update_time, now, report, data_list, ret,
             transport, contended, sleep_left>>
fnVars == <<input, output, phase>>
vars == <<pc, data_lock, last_update_time, now, report, data_list, ret,
          transport, contended, sleep_left, input, output, phase>>

(***************************************************************************)
(* Bounds of the model.                                                    *)
(***************************************************************************)
MaxListing == 3      \* entries in a remote listing (function specifications)
MaxMtime == 2        \* st_mtime values 1..MaxMtime
MaxCount == 3        \* max_files arguments 0..MaxCount
MaxPublished == 2    \* records in a list handed to publish_to_mqtt

Min(a, b) == IF a <= b THEN a ELSE b

(***************************************************************************)
(* Python str helpers on file names (sequences of characters).             *)
(***************************************************************************)
LowerChar(c) ==
    CASE c = "X" -> "x"
      [] c = "M" -> "m"
      [] c = "L" -> "l"
      [] c = "B" -> "b"
      [] OTHER -> c

lower(s) == [i \in 1..Len(s) |-> LowerChar(s[i])]

endswith(s, suffix) ==
    /\ Len(s) >= Len(suffix)
    /\ SubSeq(s, Len(s) - Len(suffix) + 1, Len(s)) = suffix

DotXml == <<".", "x", "m", "l">>

(***************************************************************************)
(* list.sort(key=..., reverse=True): the indices of keys in the order the  *)
(* sorted list holds them.  Python's sort is stable, and reverse=True      *)
(* keeps the original order of elements with equal keys.                   *)
(***************************************************************************)
InsertIdx(perm, i, keys) ==
    LET p == Cardinality({k \in 1..Len(perm) : keys[perm[k]] >= keys[i]})
    IN  SubSeq(perm, 1, p) \o <<i>> \o SubSeq(perm, p + 1, Len(perm))

RECURSIVE SortIdx(_, _)
SortIdx(keys, n) ==
    IF n = 0 THEN <<>> ELSE InsertIdx(SortIdx(keys, n - 1), n, keys)

\* a plausible slip: sort ascending and reverse the result, which also
\* reverses the order of elements with equal keys
InsertIdxAsc(perm, i, keys) ==
    LET p == Cardinality({k \in 1..Len(perm) : keys[perm[k]] <= keys[i]})
    IN  SubSeq(perm, 1, p) \o <<i>> \o SubSeq(perm, p + 1, Len(perm))

RECURSIVE SortIdxAsc(_, _)
SortIdxAsc(keys, n) ==
    IF n = 0 THEN <<>> ELSE InsertIdxAsc(SortIdxAsc(keys, n - 1), n, keys)

Reverse(s) == [i \in 1..Len(s) |-> s[Len(s) + 1 - i]]

sort_reverse_Unstable(keys) == Reverse(SortIdxAsc(keys, Len(keys)))

sort_reverse(keys) == SortIdx(keys, Len(keys))

Permute(s, perm) == [i \in 1..Len(perm) |-> s[perm[i]]]

(***************************************************************************)
(* get_newest_files(sftp, path, max_files).  file_list is what             *)
(* sftp.listdir_attr returns: [raises, entries]; every entry has filename  *)
(* and st_mtime.                                                           *)
(***************************************************************************)
IsXmlName(f) == endswith(lower(f.filename), DotXml)

\* a plausible slip: the extension test without lower()
get_newest_files_CaseSensitive(file_list, max_files) ==
    IF file_list.raises THEN <<>>
    ELSE LET Test(f) == endswith(f.filename, DotXml)
             xml_files == SelectSeq(file_list.entries, Test)
             keys == [i \in 1..Len(xml_files) |-> xml_files[i].st_mtime]
             sorted == Permute(xml_files, sort_reverse(keys))
         IN  SubSeq(sorted, 1, Min(max_files, Len(sorted)))

get_newest_files(file_list, max_files) ==
    IF file_list.raises THEN <<>>
    ELSE LET xml_files == SelectSeq(file_list.entries, IsXmlName)
             keys == [i \in 1..Len(xml_files) |-> xml_files[i].st_mtime]
             sorted == Permute(xml_files, sort_reverse(keys))
         IN  SubSeq(sorted, 1, Min(max_files, Len(sorted)))

(***************************************************************************)
(* Texts, dates and numbers of the record extractor.                       *)
(***************************************************************************)
None == "None"              \* Python None where a str is expected
NoElement == "NoElement"    \* Element.find() found nothing

FMT_YMD == "%Y-%m-%d %H:%M:%S"
FMT_DMY == "%d.%m.%Y %H:%M:%S"

EPOCH_ISO == "1970-01-01T00:00:00"

Instants == {0, 1, 2}

\* texts in the layout %Y-%m-%d %H:%M:%S and the instants they denote
YmdText == <<"2024-01-01 10:00:00", "2024-01-02 10:00:00">>
\* texts in the layout %d.%m.%Y %H:%M:%S
DmyText == <<"01.01.2024 10:00:00", "02.01.2024 10:00:00">>
\* datetime.isoformat()
IsoText == <<"2024-01-01T10:00:00", "2024-01-02T10:00:00">>

\* datetime.strptime(text, fmt): [exc, val]
strptime(text, fmt) ==
    LET table == IF fmt = FMT_YMD THEN YmdText ELSE DmyText
        hits == {i \in 1..Len(table) : table[i] = text}
    IN  IF text = None THEN [exc |-> "TypeError", val |-> 0]
        ELSE IF hits = {} THEN [exc |-> "ValueError", val |-> 0]
        ELSE [exc |-> "no", val |-> CHOOSE i \in hits : TRUE]

strftime_dmy(t) == IF t = 0 THEN "01.01.1970 00:00:00" ELSE DmyText[t]

isoformat(t) == IF t = 0 THEN EPOCH_ISO ELSE IsoText[t]

\* float(text): [exc, val], val in tenths
float(text) ==
    IF text = None THEN [exc |-> "TypeError", val |-> 0]
    ELSE IF text = "12.5" THEN [exc |-> "no", val |-> 125]
    ELSE IF text = "0.5" THEN [exc |-> "no", val |-> 5]
    ELSE [exc |-> "ValueError", val |-> 0]

\* the order Python gives the strings a RawDate can be (code point order):
\* "-" < "1970-..." < "2024-01-01T..." < "2024-01-02T..." < "gestern"
StrRank(s) ==
    CASE s = "-" -> 0
      [] s = EPOCH_ISO -> 1
      [] s = IsoText[1] -> 2
      [] s = IsoText[2] -> 3
      [] OTHER -> 4

(***************************************************************************)
(* parse_xml_file(file_path).  doc is the content of the file:             *)
(* wellformed (ET.parse succeeds), transaction (root.find finds the        *)
(* Transaction element) and, per sub-element, NoElement or its text.       *)
(***************************************************************************)
NoneData == [isNone |-> TRUE]

\* lines 158-177: [exc, display, raw]
ParseStartDate(text) ==
    IF text = NoElement
    THEN [exc |-> "no", display |-> "N/A", raw |-> EPOCH_ISO]
    ELSE LET p1 == strptime(text, FMT_YMD)
             p2 == strptime(text, FMT_DMY)
         IN  IF p1.exc = "TypeError"
             THEN [exc |-> "TypeError", display |-> "N/A", raw |-> EPOCH_ISO]
             ELSE IF p1.exc = "no"
             THEN [exc |-> "no", display |-> strftime_dmy(p1.val),
                   raw |-> isoformat(p1.val)]
             ELSE IF p2.exc = "no"
             THEN [exc |-> "no", display |-> text, raw |-> isoformat(p2.val)]
             ELSE [exc |-> "no", display |-> text, raw |-> text]

\* lines 187-201: <<ArticleNumber, RawArticleNumber>>
ParseArticle(text) ==
    IF text = NoElement THEN <<"N/A", "N/A">>
    ELSE IF text = "1" THEN <<"AVGAS", "1">>
    ELSE IF text = "2" THEN <<"MOGAS", "2">>
    ELSE <<text, text>>

\* lines 204-213: [exc, display, raw]
ParseQuantity(text) ==
    IF text = NoElement
    THEN [exc |-> "no", display |-> "N/A", raw |-> 0]
    ELSE LET q == float(text)
         IN  IF q.exc = "TypeError"
             THEN [exc |-> "TypeError", display |-> text, raw |-> 0]
             ELSE IF q.exc = "ValueError"
             THEN [exc |-> "no", display |-> text, raw |-> 0]
             ELSE [exc |-> "no", display |-> text, raw |-> q.val]

TextOrNA(text) == IF text = NoElement THEN "N/A" ELSE text

parse_xml_file(doc) ==
    IF ~doc.wellformed THEN NoneData            \* ET.parse raises: line 224
    ELSE IF ~doc.transaction THEN NoneData      \* line 146
    ELSE LET d == ParseStartDate(doc.TransactionStartDate)
             a == ParseArticle(doc.ArticleNumber)
             q == ParseQuantity(doc.TransactionQuantity)
         IN  IF d.exc # "no" \/ q.exc # "no"
             THEN NoneData                      \* except Exception: line 224
             ELSE [TransactionNumber |-> TextOrNA(doc.TransactionNumber),
                   TransactionStartDate |-> d.display,
                   RawDate |-> d.raw,
                   DispenserNumber |-> TextOrNA(doc.DispenserNumber),
                   ArticleNumber |-> a[1],
                   RawArticleNumber |-> a[2],
                   TransactionQuantity |-> q.display,
                   RawQuantity |-> q.raw,
                   Kennzeichen |-> TextOrNA(doc.AdditionalEntry)]

(***************************************************************************)
(* download_files and fetch_and_process_data.  remote is the state of the  *)
(* SFTP server as one refresh meets it: connect (ssh.connect and           *)
(* open_sftp succeed), file_list (the answer of listdir_attr) whose        *)
(* entries carry, besides filename and st_mtime, the content of the file   *)
(* and whether sftp.get of it succeeds.                                    *)
(***************************************************************************)
MAX_FILES == 10

NoneList == [isNone |-> TRUE, items |-> <<>>]
List(items) == [isNone |-> FALSE, items |-> items]

\* Python truth value of a list-or-None
Truthy(l) == ~l.isNone /\ l.items # <<>>

IsReadable(f) == f.readable

download_files(files) == SelectSeq(files, IsReadable)

IsData(d) == d # NoneData

\* lines 531-535
ParseAll(downloaded_files) ==
    SelectSeq([i \in 1..Len(downloaded_files) |->
                  parse_xml_file(downloaded_files[i].content)], IsData)

\* lines 538-541: a plausible slip, see sort_reverse_Unstable
SortData_Unstable(records) ==
    Permute(records, sort_reverse_Unstable(
        [i \in 1..Len(records) |-> StrRank(records[i].RawDate)]))

\* lines 538-541
SortData(records) ==
    Permute(records, sort_reverse(
        [i \in 1..Len(records) |-> StrRank(records[i].RawDate)]))

fetch_and_process_data(remote) ==
    IF ~remote.connect THEN NoneList
    ELSE LET newest_files == get_newest_files(remote.file_list, MAX_FILES)
         IN  IF newest_files = <<>> THEN NoneList
             ELSE List(SortData(ParseAll(download_files(newest_files))))

\* how the transport answered: the refresh failed at connect or list level,
\* or it obtained a listing
TransportOf(remote) ==
    IF ~remote.connect THEN "connect_failed"
    ELSE IF remote.file_list.raises THEN "list_failed"
    ELSE "listed"

(***************************************************************************)
(* generate_html(data_list): the table rows, one per record, in the order  *)
(* received, each the six displayed fields.  The style sheet, the script   *)
(* and the generation time stamp are not modelled.                         *)
(***************************************************************************)
RowOf(data) ==
    <<data.TransactionNumber, data.TransactionStartDate, data.DispenserNumber,
      data.ArticleNumber, data.TransactionQuantity, data.Kennzeichen>>

generate_html(items) == [i \in 1..Len(items) |-> RowOf(items[i])]

\* content of OUTPUT_FILE
NoFile == [kind |-> "no file", rows |-> <<>>]
Placeholder == [kind |-> "placeholder", rows |-> <<>>]   \* "Loading data..."
Truncated == [kind |-> "truncated", rows |-> <<>>]       \* opened 'w', not written
Html(rows) == [kind |-> "table", rows |-> rows]

(***************************************************************************)
(* web_server.py                                                           *)
(***************************************************************************)
\* time is counted in polling periods of scheduled_update, UPDATE_INTERVAL/10
\* seconds for every interval up to 600 s (300 s is the default): the
\* interval is 10 periods and time.sleep(min(60, UPDATE_INTERVAL / 10)) one
UPDATE_INTERVAL == 10
SleepTime == Min(60, UPDATE_INTERVAL \div 10)

MaxTime == 10          \* the clock stops here
MaxSrvListing == 1     \* entries in a listing met by the running server

Free == "free"
Handlers == {"h1", "h2"}      \* Flask request threads
Threads == {"main", "sched"} \cup Handlers

\* positions inside the body of "with data_lock" of update_data
InCycle == {"fetching", "fetched"}

\* the documents the running server meets
DocWith(number, date) ==
    [wellformed |-> TRUE, transaction |-> TRUE, TransactionNumber |-> number,
     TransactionStartDate |-> date, DispenserNumber |-> "3",
     ArticleNumber |-> "1", TransactionQuantity |-> "12.5",
     AdditionalEntry |-> NoElement]
DocNoTransaction ==
    [wellformed |-> TRUE, transaction |-> FALSE, TransactionNumber |-> NoElement,
     TransactionStartDate |-> NoElement, DispenserNumber |-> NoElement,
     ArticleNumber |-> NoElement, TransactionQuantity |-> NoElement,
     AdditionalEntry |-> NoElement]

SrvNames == << <<"a", ".", "x", "m", "l">>, <<"b", ".", "X", "M", "L">>,
               <<"c", ".", "x", "m", "l">> >>
SrvDocs == {DocWith("4711", YmdText[1]), DocWith("4712", YmdText[2]),
            DocNoTransaction}

\* what file i of a listing can be
SrvEntries(i) ==
    [filename : {SrvNames[i], <<"n", ".", "t", "x", "t">>}, st_mtime : {1},
     content : SrvDocs, readable : BOOLEAN]

RECURSIVE SrvListings(_)
SrvListings(n) ==
    IF n = 0 THEN {<<>>}
    ELSE {Append(l, e) : l \in SrvListings(n - 1), e \in SrvEntries(n)}

\* the server cannot be reached, the directory cannot be listed, or it
\* lists at most MaxSrvListing files
SrvRemotes ==
    {[connect |-> FALSE, file_list |-> [raises |-> FALSE, entries |-> <<>>]],
     [connect |-> TRUE, file_list |-> [raises |-> TRUE, entries |-> <<>>]]}
    \cup {[connect |-> TRUE, file_list |-> [raises |-> FALSE, entries |-> l]] :
             l \in UNION {SrvListings(n) : n \in 0..MaxSrvListing}}

\* what one execution of fetch_and_process_data can meet and return
SrvFetches ==
    {[transport |-> TransportOf(r), result |-> fetch_and_process_data(r)] :
        r \in SrvRemotes}

NoInput == "none"

SrvInitWith(file) ==
    /\ pc = [t \in Threads |->
               CASE t = "main" -> "ensure_www"
                 [] t = "sched" -> "not_started"
                 [] OTHER -> "idle"]
    /\ data_lock = Free
    /\ now = 0
    /\ last_update_time = 0 - UPDATE_INTERVAL
    /\ report = file
    /\ data_list = [t \in Threads |-> NoneList]
    /\ ret = [t \in Threads |-> "none"]
    /\ transport = [t \in Threads |-> "none"]
    /\ contended = [t \in Threads |-> FALSE]
    /\ sleep_left = 0

\* the process starts in a fresh container
SrvInit == SrvInitWith(NoFile)

(***************************************************************************)
(* update_data() called by thread t: "with data_lock" (lines 85-96).       *)
(* A thread that finds the lock held waits at "blocked" until it is free.  *)
(***************************************************************************)
\* a plausible slip: update_data without "with data_lock"
Acquire_NoLock(t) ==
    /\ pc[t] = "update_data"
    /\ data_lock' = t
    /\ pc' = [pc EXCEPT ![t] = "fetching"]
    /\ UNCHANGED <<last_update_time, now, report, data_list, ret, transport,
                   contended, sleep_left, fnVars>>

Acquire(t) ==
    /\ pc[t] = "update_data"
    /\ IF data_lock = Free
       THEN /\ data_lock' = t
            /\ pc' = [pc EXCEPT ![t] = "fetching"]
            /\ UNCHANGED contended
       ELSE /\ pc' = [pc EXCEPT ![t] = "blocked"]
            /\ contended' = [contended EXCEPT ![t] = TRUE]
            /\ UNCHANGED data_lock
    /\ UNCHANGED <<last_update_time, now, report, data_list, ret, transport,
                   sleep_left, fnVars>>

\* a plausible slip: a waiter that gives up waiting and runs
\* (data_lock.acquire(timeout=...) with its result ignored)
AcquireBlocked_NoWait(t) ==
    /\ pc[t] = "blocked"
    /\ data_lock' = t
    /\ pc' = [pc EXCEPT ![t] = "fetching"]
    /\ UNCHANGED <<last_update_time, now, report, data_list, ret, transport,
                   contended, sleep_left, fnVars>>

AcquireBlocked(t) ==
    /\ pc[t] = "blocked"
    /\ data_lock = Free
    /\ data_lock' = t
    /\ pc' = [pc EXCEPT ![t] = "fetching"]
    /\ UNCHANGED <<last_update_time, now, report, data_list, ret, transport,
                   contended, sleep_left, fnVars>>

\* tank_data_reader.main(), line 563: fetch_and_process_data returns
MainFetch(t) ==
    /\ pc[t] = "fetching"
    /\ \E f \in SrvFetches :
          /\ data_list' = [data_list EXCEPT ![t] = f.result]
          /\ transport' = [transport EXCEPT ![t] = f.transport]
    /\ pc' = [pc EXCEPT ![t] = "fetched"]
    /\ UNCHANGED <<data_lock, last_update_time, now, report, ret, contended,
                   sleep_left, fnVars>>

\* a plausible slip: "if data_list is not None" written as no test at all,
\* so that a refresh without data writes an empty table
WritesReport_Always(l) == TRUE

\* tank_data_reader.main(), line 565: "if data_list:"
WritesReport(l) == Truthy(l)

\* tank_data_reader.main(), lines 565-583, and update_data, lines 91-96:
\* the report is generated and written and main() returns, or open() or
\* write() raises; then last_update_time is set and True returned, or the
\* exception is caught and False returned; the lock is released
UpdateReturn(t) ==
    /\ pc[t] = "fetched"
    /\ \/ /\ report' = IF WritesReport(data_list[t])
                       THEN Html(generate_html(data_list[t].items))
                       ELSE report
          /\ last_update_time' = now
          /\ ret' = [ret EXCEPT ![t] = "success"]
       \/ /\ WritesReport(data_list[t])
          /\ report' \in {report, Truncated}
          /\ ret' = [ret EXCEPT ![t] = "failure"]
          /\ UNCHANGED last_update_time
    /\ data_lock' = Free
    /\ pc' = [pc EXCEPT ![t] = "returned"]
    /\ data_list' = [data_list EXCEPT ![t] = NoneList]
    /\ transport' = [transport EXCEPT ![t] = "none"]
    /\ UNCHANGED <<now, contended, sleep_left, fnVars>>

\* the caller's frame is left: the call's record is dropped
Forget(t) ==
    /\ ret' = [ret EXCEPT ![t] = "none"]
    /\ contended' = [contended EXCEPT ![t] = FALSE]

(***************************************************************************)
(* run_server() (lines 170-184), on the main thread.                       *)
(***************************************************************************)
ensure_www_directory ==
    /\ pc["main"] = "ensure_www"
    /\ report' = IF report = NoFile THEN Placeholder ELSE report
    /\ pc' = [pc EXCEPT !["main"] = "update_data"]
    /\ UNCHANGED <<data_lock, last_update_time, now, data_list, ret, transport,
                   contended, sleep_left, fnVars>>

\* lines 179-184: the update thread is started, then Flask serves requests
StartServing ==
    /\ pc["main"] = "returned"
    /\ pc' = [pc EXCEPT !["main"] = "serving", !["sched"] = "check"]
    /\ Forget("main")
    /\ UNCHANGED <<data_lock, last_update_time, now, report, data_list,
                   transport, sleep_left, fnVars>>

(***************************************************************************)
(* scheduled_update() (lines 98-109).                                      *)
(***************************************************************************)
\* a plausible slip: due only once more than the interval has passed
SchedCheck_Strict ==
    /\ pc["sched"] = "check"
    /\ IF now - last_update_time > UPDATE_INTERVAL
       THEN /\ pc' = [pc EXCEPT !["sched"] = "update_data"]
            /\ UNCHANGED sleep_left
       ELSE /\ pc' = [pc EXCEPT !["sched"] = "sleep"]
            /\ sleep_left' = SleepTime
    /\ UNCHANGED <<data_lock, last_update_time, now, report, data_list, ret,
                   transport, contended, fnVars>>

SchedCheck ==
    /\ pc["sched"] = "check"
    /\ IF now - last_update_time >= UPDATE_INTERVAL
       THEN /\ pc' = [pc EXCEPT !["sched"] = "update_data"]
            /\ UNCHANGED sleep_left
       ELSE /\ pc' = [pc EXCEPT !["sched"] = "sleep"]
            /\ sleep_left' = SleepTime
    /\ UNCHANGED <<data_lock, last_update_time, now, report, data_list, ret,
                   transport, contended, fnVars>>

\* line 104 returned: line 109
SchedSleep ==
    /\ pc["sched"] = "returned"
    /\ pc' = [pc EXCEPT !["sched"] = "sleep"]
    /\ sleep_left' = SleepTime
    /\ Forget("sched")
    /\ UNCHANGED <<data_lock, last_update_time, now, report, data_list,
                   transport, fnVars>>

SchedWake ==
    /\ pc["sched"] = "sleep"
    /\ sleep_left = 0
    /\ pc' = [pc EXCEPT !["sched"] = "check"]
    /\ UNCHANGED <<data_lock, last_update_time, now, report, data_list, ret,
                   transport, contended, sleep_left, fnVars>>

\* time passes; the clock is read up to MaxTime only, a sleep ends all the same
Tick ==
    /\ now < MaxTime \/ sleep_left > 0
    /\ now' = IF now < MaxTime THEN now + 1 ELSE now
    /\ sleep_left' = IF sleep_left > 0 THEN sleep_left - 1 ELSE 0
    /\ UNCHANGED <<pc, data_lock, last_update_time, report, data_list, ret,
                   transport, contended, fnVars>>

(***************************************************************************)
(* The HTTP handlers, each request on a thread of its own.                 *)
(***************************************************************************)
\* GET /reload (lines 121-131): calls update_data
reload_data(h) ==
    /\ pc["main"] = "serving"
    /\ pc[h] = "idle"
    /\ pc' = [pc EXCEPT ![h] = "update_data"]
    /\ UNCHANGED <<data_lock, last_update_time, now, report, data_list, ret,
                   transport, contended, sleep_left, fnVars>>

\* GET /api/tankdata (lines 143-148): calls fetch_and_process_data
api_tankdata(h) ==
    /\ pc["main"] = "serving"
    /\ pc[h] = "idle"
    /\ pc' = [pc EXCEPT ![h] = "api_fetching"]
    /\ UNCHANGED <<data_lock, last_update_time, now, report, data_list, ret,
                   transport, contended, sleep_left, fnVars>>

\* lines 148-161: fetch_and_process_data returns
ApiFetch(h) ==
    /\ pc[h] = "api_fetching"
    /\ \E ok \in {Truthy(f.result) : f \in SrvFetches} :
          ret' = [ret EXCEPT ![h] = IF ok THEN "success" ELSE "failure"]
    /\ pc' = [pc EXCEPT ![h] = "returned"]
    /\ UNCHANGED <<data_lock, last_update_time, now, report, data_list,
                   transport, contended, sleep_left, fnVars>>

\* jsonify(response): the request is answered
Respond(h) ==
    /\ pc[h] = "returned"
    /\ pc' = [pc EXCEPT ![h] = "idle"]
    /\ Forget(h)
    /\ UNCHANGED <<data_lock, last_update_time, now, report, data_list,
                   transport, sleep_left, fnVars>>

Init ==
    /\ SrvInit
    /\ input = NoInput
    /\ output = NoInput
    /\ phase = "none"

Next ==
    \/ ensure_www_directory
    \/ StartServing
    \/ SchedCheck
    \/ SchedSleep
    \/ SchedWake
    \/ Tick
    \/ \E t \in Threads : Acquire(t)
    \/ \E t \in Threads : AcquireBlocked(t)
    \/ \E t \in Threads : MainFetch(t)
    \/ \E t \in Threads : UpdateReturn(t)
    \/ \E h \in Handlers : reload_data(h)
    \/ \E h \in Handlers : api_tankdata(h)
    \/ \E h \in Handlers : ApiFetch(h)
    \/ \E h \in Handlers : Respond(h)

Spec == Init /\ [][Next]_vars

\* the server with the main thread, the scheduler and the requests of one
\* client, which sends its next request when the last one is answered
OneClient == {"h1"}

NextOneClient ==
    \/ ensure_www_directory
    \/ StartServing
    \/ SchedCheck
    \/ SchedSleep
    \/ SchedWake
    \/ Tick
    \/ \E t \in {"main", "sched"} \cup OneClient : Acquire(t)
    \/ \E t \in {"main", "sched"} \cup OneClient : AcquireBlocked(t)
    \/ \E t \in {"main", "sched"} \cup OneClient : MainFetch(t)
    \/ \E t \in {"main", "sched"} \cup OneClient : UpdateReturn(t)
    \/ \E h \in OneClient : reload_data(h)
    \/ \E h \in OneClient : api_tankdata(h)
    \/ \E h \in OneClient : ApiFetch(h)
    \/ \E h \in OneClient : Respond(h)

\* the scheduler thread runs (daemon thread of run_server, line 178) and
\* time.sleep returns
FairSpec ==
    /\ Init /\ [][NextOneClient]_vars
    /\ WF_vars(SchedCheck)
    /\ WF_vars(SchedSleep)
    /\ WF_vars(SchedWake)
    /\ WF_vars(Tick)

(***************************************************************************)
(* Claims about the running server (Spec).                                 *)
(***************************************************************************)
\* thread t leaves update_data in this step
Returns(t) == pc[t] = "fetched" /\ pc'[t] = "returned"

TransportFailed(t) == transport[t] \in {"connect_failed", "list_failed"}

\* C1: in every reachable state at most one thread executes the body of
\* update_data (main() and the write of last_update_time), whoever called
\* it: run_server, scheduled_update or a /reload request.
C1_OneRefreshAtATime ==
    /\ Cardinality({t \in Threads : pc[t] \in InCycle}) <= 1
    /\ \A t \in Threads : pc[t] \in InCycle => data_lock = t

\* one request refreshes while the scheduler and another request wait
C1_Witness ==
    /\ pc["h1"] = "fetched"
    /\ pc["sched"] = "blocked"
    /\ pc["h2"] = "blocked"

\* C2: a refresh whose transport fails at connect or list level returns
\* failure from update_data and leaves last_update_time as it was.
C2_TransportFailureReported ==
    [][\A t \in Threads : (Returns(t) /\ TransportFailed(t)) =>
          /\ ret'[t] = "failure"
          /\ last_update_time' = last_update_time]_vars

C4_NoFetchOverlap ==
    Cardinality({t \in Threads : pc[t] \in {"fetching", "api_fetching"}}) <= 1

\* C5: every refresh that obtained a listing and returns success, also one
\* that yields no record, leaves the report holding exactly the rows of its
\* own records (none when it has no record).
C5_ReportRewritten ==
    [][\A t \in Threads :
          (Returns(t) /\ transport[t] = "listed" /\ ret'[t] = "success") =>
              report' = Html(generate_html(data_list[t].items))]_vars

\* C6: a refresh that fails at transport level leaves the report as it is;
\* the report changes only when ensure_www_directory creates the
\* placeholder or when a refresh that obtained records writes, and such a
\* refresh, when it returns success, leaves exactly its own rows.
C6_FailedRefreshKeepsReport ==
    [][/\ \A t \in Threads : (Returns(t) /\ TransportFailed(t)) => report' = report
       /\ report' # report =>
             \/ pc["main"] = "ensure_www" /\ report = NoFile /\ report' = Placeholder
             \/ \E t \in Threads :
                   /\ Returns(t)
                   /\ transport[t] = "listed"
                   /\ data_list[t].items # <<>>
                   /\ ret'[t] = "success" =>
                         report' = Html(generate_html(data_list[t].items))]_vars

\* the fetch of a refresh has failed at transport level while the report
\* holds the rows an earlier refresh wrote
C6_Witness ==
    \E t \in Threads :
        /\ pc[t] = "fetched"
        /\ TransportFailed(t)
        /\ report.kind = "table"
        /\ report.rows # <<>>

(***************************************************************************)
(* One call of parse_xml_file on every document of Docs.                   *)
(***************************************************************************)
Docs ==
    {d \in [wellformed : BOOLEAN, transaction : BOOLEAN,
            TransactionNumber : {NoElement, None, "4711"},
            TransactionStartDate : {NoElement, None, YmdText[1], YmdText[2],
                                    DmyText[2], "gestern", "-"},
            DispenserNumber : {NoElement, "3"},
            ArticleNumber : {NoElement, None, "1", "2", "7"},
            TransactionQuantity : {NoElement, None, "12.5", "abc"},
            AdditionalEntry : {NoElement, "D-EABC"}] :
        /\ ~d.wellformed => ~d.transaction
        /\ ~d.transaction =>
              /\ d.TransactionNumber = NoElement
              /\ d.TransactionStartDate = NoElement
              /\ d.DispenserNumber = NoElement
              /\ d.ArticleNumber = NoElement
              /\ d.TransactionQuantity = NoElement
              /\ d.AdditionalEntry = NoElement}

InitExtract ==
    /\ SrvInitWith(NoFile)
    /\ input \in Docs
    /\ output = NoneData
    /\ phase = "call"

Extract ==
    /\ phase = "call"
    /\ output' = parse_xml_file(input)
    /\ phase' = "returned"
    /\ UNCHANGED <<input, srvVars>>

NextExtract == Extract

SpecExtract == InitExtract /\ [][NextExtract]_vars

(***************************************************************************)
(* One call of get_newest_files on every listing of at most MaxListing     *)
(* entries with distinct names, and on a listing that cannot be obtained.  *)
(***************************************************************************)
SelNames == {<<"a", ".", "x", "m", "l">>, <<"b", ".", "X", "M", "L">>,
             <<"c", ".", "X", "m", "l">>, <<"n", ".", "t", "x", "t">>,
             <<"x", "m", "l">>}

SelListings(n) ==
    {l \in [1..n -> [filename : SelNames, st_mtime : 1..MaxMtime]] :
        \A i, j \in 1..n : i # j => l[i].filename # l[j].filename}

SelInput(raises, entries, max_files) ==
    [file_list |-> [raises |-> raises, entries |-> entries], max_files |-> max_files]

IsSelInput(a) ==
    \E m \in 0..MaxCount :
        \/ a = SelInput(TRUE, <<>>, m)
        \/ \E n \in 0..MaxListing : \E l \in SelListings(n) : a = SelInput(FALSE, l, m)

InitSelect ==
    /\ SrvInitWith(NoFile)
    /\ IsSelInput(input)
    /\ output = <<>>
    /\ phase = "call"

Select ==
    /\ phase = "call"
    /\ output' = get_newest_files(input.file_list, input.max_files)
    /\ phase' = "returned"
    /\ UNCHANGED <<input, srvVars>>

NextSelect == Select

SpecSelect == InitSelect /\ [][NextSelect]_vars

(***************************************************************************)
(* One call of fetch_and_process_data, statement by statement, against     *)
(* every remote state of FetchRemotes.  output holds the locals.           *)
(***************************************************************************)
Letters == <<"a", "b", "c", "d", "e", "f">>

\* what file i of a listing can be: a record of one of three dates, a
\* document without Transaction element, or a file sftp.get cannot read
FetchEntries(i) ==
    {[filename |-> <<Letters[i], ".", "x", "m", "l">>, st_mtime |-> m,
      content |-> c, readable |-> TRUE] :
        m \in 1..MaxMtime,
        c \in {DocWith(Letters[i], d) : d \in {YmdText[1], YmdText[2], "gestern"}}
              \cup {DocNoTransaction}}
    \cup {[filename |-> <<Letters[i], ".", "x", "m", "l">>, st_mtime |-> m,
           content |-> DocNoTransaction, readable |-> FALSE] : m \in 1..MaxMtime}

RECURSIVE FetchListings(_)
FetchListings(n) ==
    IF n = 0 THEN {<<>>}
    ELSE {Append(l, e) : l \in FetchListings(n - 1), e \in FetchEntries(n)}

Remote(connect, raises, entries) ==
    [connect |-> connect, file_list |-> [raises |-> raises, entries |-> entries]]

\* the server cannot be reached, the directory cannot be listed, or it
\* lists at most MaxListing files
IsFetchRemote(r) ==
    \/ r = Remote(FALSE, FALSE, <<>>)
    \/ r = Remote(TRUE, TRUE, <<>>)
    \/ \E n \in 0..MaxListing : \E l \in FetchListings(n) : r = Remote(TRUE, FALSE, l)

Locals(newest, downloaded, data, result) ==
    [newest_files |-> newest, downloaded_files |-> downloaded,
     data_list |-> data, result |-> result]

InitFetch ==
    /\ SrvInitWith(NoFile)
    /\ IsFetchRemote(input)
    /\ output = Locals(<<>>, <<>>, <<>>, NoneList)
    /\ phase = "connect"

\* lines 514-517
FetchConnect ==
    /\ phase = "connect"
    /\ phase' = IF input.connect THEN "list" ELSE "returned"
    /\ UNCHANGED <<input, output, srvVars>>

\* lines 521-525
FetchList ==
    /\ phase = "list"
    /\ LET newest == get_newest_files(input.file_list, MAX_FILES)
       IN  /\ output' = [output EXCEPT !.newest_files = newest]
           /\ phase' = IF newest = <<>> THEN "returned" ELSE "download"
    /\ UNCHANGED <<input, srvVars>>

\* line 528
FetchDownload ==
    /\ phase = "download"
    /\ output' = [output EXCEPT
                    !.downloaded_files = download_files(output.newest_files)]
    /\ phase' = "parse"
    /\ UNCHANGED <<input, srvVars>>

\* lines 531-535
FetchParse ==
    /\ phase = "parse"
    /\ output' = [output EXCEPT !.data_list = ParseAll(output.downloaded_files)]
    /\ phase' = "sort"
    /\ UNCHANGED <<input, srvVars>>

\* lines 538-543
FetchSort ==
    /\ phase = "sort"
    /\ output' = [output EXCEPT !.result = List(SortData(output.data_list))]
    /\ phase' = "returned"
    /\ UNCHANGED <<input, srvVars>>

NextFetch ==
    \/ FetchConnect
    \/ FetchList
    \/ FetchDownload
    \/ FetchParse
    \/ FetchSort

SpecFetch == InitFetch /\ [][NextFetch]_vars

(***************************************************************************)
(* One call of publish_to_mqtt(client, data_list), publish by publish.     *)
(* main() calls it with a connected client and a non-empty list only       *)
(* (lines 565 and 576).  output holds the calls of client.publish made so  *)
(* far with their outcome, the loop index, the two statistics and the      *)
(* closing log line.                                                       *)
(***************************************************************************)
\* client.publish returns (rc 0, or an error code the code never reads) or
\* raises (ValueError for a topic with a wildcard, an oversized payload, ...)
PublishOutcomes == {"ok", "rc_error", "raises"}

PubRecords ==
    {parse_xml_file(DocWith("4711", YmdText[1])),
     parse_xml_file([DocWith("4712", YmdText[2]) EXCEPT !.ArticleNumber = "2"])}

RECURSIVE PubLists(_)
PubLists(n) ==
    IF n = 0 THEN {<<>>}
    ELSE {Append(l, r) : l \in PubLists(n - 1), r \in PubRecords}

IsPubInput(a) ==
    \E n \in 1..MaxPublished : \E l \in PubLists(n) : a = [data_list |-> l]

\* line 489
RECURSIVE total_quantity(_)
total_quantity(records) ==
    IF records = <<>> THEN 0
    ELSE records[1].RawQuantity + total_quantity(Tail(records))

\* lines 493-500
article_counts(records) ==
    [a \in {records[i].RawArticleNumber : i \in 1..Len(records)} |->
        Cardinality({i \in 1..Len(records) : records[i].RawArticleNumber = a})]

\* the topic below MQTT_TOPIC_PREFIX
Topic(name) == <<name>>
TransactionTopic(data) == <<"transaction", data.TransactionNumber>>

\* the sequence of publish calls after one more call, and where the call
\* leaves the function: at the next statement, or in the except clause
Published(topic, r) == Append(output.published, [topic |-> topic, outcome |-> r])
After(r, next) == IF r = "raises" THEN "returned" ELSE next
Logged(r) == IF r = "raises" THEN "error" ELSE output.logged

InitPublish ==
    /\ SrvInitWith(NoFile)
    /\ IsPubInput(input)
    /\ output = [published |-> <<>>, i |-> 1, total_quantity |-> 0,
                 article_counts |-> <<>>, logged |-> "none"]
    /\ phase = "last_update"

\* lines 471-473
PublishLastUpdate ==
    /\ phase = "last_update"
    /\ \E r \in PublishOutcomes :
          /\ output' = [output EXCEPT !.published = Published(Topic("last_update"), r),
                                      !.logged = Logged(r)]
          /\ phase' = After(r, "transactions")
    /\ UNCHANGED <<input, srvVars>>

\* lines 476-478
PublishTransactions ==
    /\ phase = "transactions"
    /\ \E r \in PublishOutcomes :
          /\ output' = [output EXCEPT !.published = Published(Topic("transactions"), r),
                                      !.logged = Logged(r)]
          /\ phase' = After(r, "transaction")
    /\ UNCHANGED <<input, srvVars>>

\* lines 481-486, one pass of the loop; every record parse_xml_file returns
\* holds the key TransactionNumber
PublishTransaction ==
    /\ phase = "transaction"
    /\ \E r \in PublishOutcomes :
          /\ output' = [output EXCEPT
                          !.published = Published(TransactionTopic(input.data_list[output.i]), r),
                          !.i = @ + 1,
                          !.logged = Logged(r)]
          /\ phase' = After(r, IF output.i < Len(input.data_list)
                               THEN "transaction" ELSE "total_quantity")
    /\ UNCHANGED <<input, srvVars>>

\* lines 489-490
PublishTotalQuantity ==
    /\ phase = "total_quantity"
    /\ \E r \in PublishOutcomes :
          /\ output' = [output EXCEPT
                          !.total_quantity = total_quantity(input.data_list),
                          !.published = Published(Topic("total_quantity"), r),
                          !.logged = Logged(r)]
          /\ phase' = After(r, "article_counts")
    /\ UNCHANGED <<input, srvVars>>

\* lines 493-504
PublishArticleCounts ==
    /\ phase = "article_counts"
    /\ \E r \in PublishOutcomes :
          /\ output' = [output EXCEPT
                          !.article_counts = article_counts(input.data_list),
                          !.published = Published(Topic("article_counts"), r),
                          !.logged = IF r = "raises" THEN "error" ELSE "success"]
          /\ phase' = "returned"
    /\ UNCHANGED <<input, srvVars>>

NextPublish ==
    \/ PublishLastUpdate
    \/ PublishTransactions
    \/ PublishTransaction
    \/ PublishTotalQuantity
    \/ PublishArticleCounts

SpecPublish == InitPublish /\ [][NextPublish]_vars

(***************************************************************************)
(* Claims about the record extractor (SpecExtract).                        *)
(***************************************************************************)
IsoStrings == {isoformat(t) : t \in Instants}

DateUnparsable(text) ==
    /\ text # NoElement
    /\ text # None
    /\ strptime(text, FMT_YMD).exc = "ValueError"
    /\ strptime(text, FMT_DMY).exc = "ValueError"

\* C7: every record returned by parse_xml_file has a RawDate that is an
\* ISO-8601 time stamp; a date element whose text matches neither format
\* gives the sentinel 1970-01-01T00:00:00, never the raw text.
C7_SortKeyIsIso ==
    (phase = "returned" /\ output # NoneData) =>
        /\ output.RawDate \in IsoStrings
        /\ DateUnparsable(input.TransactionStartDate) => output.RawDate = EPOCH_ISO

\* C8: every document that holds the Transaction element yields a record,
\* whatever the state of its sub-elements (absent, empty, unparsable).
C8_TransactionAlwaysExtracted ==
    (phase = "returned" /\ input.wellformed /\ input.transaction)
        => output # NoneData

(***************************************************************************)
(* Claims about the fetch selector (SpecSelect).                           *)
(***************************************************************************)
\* the name ends in ".xml" in any mix of upper and lower case
MatchesXml(name) ==
    LET n == Len(name)
    IN  /\ n >= 4
        /\ name[n - 3] = "."
        /\ name[n - 2] \in {"x", "X"}
        /\ name[n - 1] \in {"m", "M"}
        /\ name[n] \in {"l", "L"}

\* position of the entry named as f in the listing (names are distinct)
ListingPos(f, entries) == CHOOSE k \in 1..Len(entries) : entries[k].filename = f.filename

\* f comes before g in the selector's order: newer, or as old and listed first
Before(f, g, entries) ==
    \/ f.st_mtime > g.st_mtime
    \/ f.st_mtime = g.st_mtime /\ ListingPos(f, entries) < ListingPos(g, entries)

\* C10: get_newest_files returns exactly the min(max_files, k) newest of the k
\* entries whose name ends in .xml (any case), newest first, entries of equal
\* st_mtime in listing order; no other entry and no entry older than a
\* dropped matching entry is returned.
C10_NewestSelected ==
    (phase = "returned" /\ ~input.file_list.raises) =>
        LET entries == input.file_list.entries
            matching == {k \in 1..Len(entries) : MatchesXml(entries[k].filename)}
            chosen == {output[i] : i \in 1..Len(output)}
        IN  /\ Len(output) = Min(input.max_files, Cardinality(matching))
            /\ Cardinality(chosen) = Len(output)
            /\ \A f \in chosen : \E k \in matching : entries[k] = f
            /\ \A i, j \in 1..Len(output) :
                  i < j => Before(output[i], output[j], entries)
            /\ \A k \in matching : entries[k] \notin chosen =>
                  \A f \in chosen : Before(f, entries[k], entries)

\* three matching entries, two of them equally old, one other entry, and
\* room for two: the selection drops a matching entry
C10_Witness ==
    /\ phase = "returned"
    /\ ~input.file_list.raises
    /\ Len(input.file_list.entries) >= 3
    /\ Cardinality({k \in 1..Len(input.file_list.entries) :
                       MatchesXml(input.file_list.entries[k].filename)}) = 3
    /\ \E i, j \in 1..Len(input.file_list.entries) :
          /\ i < j
          /\ input.file_list.entries[i].filename = <<"b", ".", "X", "M", "L">>
          /\ MatchesXml(input.file_list.entries[j].filename)
          /\ input.file_list.entries[i].st_mtime = input.file_list.entries[j].st_mtime
    /\ input.max_files = 2
    /\ Len(output) = 2

(***************************************************************************)
(* Claims about the refresh pipeline (SpecFetch).                          *)
(***************************************************************************)
\* position of a record in the extraction order (records of different files
\* differ in their TransactionNumber)
ExtractPos(r, data) == CHOOSE k \in 1..Len(data) : data[k] = r

\* C9: the list fetch_and_process_data returns holds the extracted records
\* ordered by RawDate descending, records of equal RawDate in the order in
\* which they were extracted.
C9_SortedStable ==
    (phase = "returned" /\ ~output.result.isNone) =>
        LET r == output.result.items
            d == output.data_list
        IN  /\ Len(r) = Len(d)
            /\ {r[i] : i \in 1..Len(r)} = {d[i] : i \in 1..Len(d)}
            /\ \A i, j \in 1..Len(r) : i < j =>
                  \/ StrRank(r[i].RawDate) > StrRank(r[j].RawDate)
                  \/ /\ r[i].RawDate = r[j].RawDate
                     /\ ExtractPos(r[i], d) < ExtractPos(r[j], d)

\* three records, two of equal RawDate, extracted in another order than the
\* one returned
C9_Witness ==
    /\ phase = "returned"
    /\ ~output.result.isNone
    /\ Len(output.result.items) = 3
    /\ output.result.items # output.data_list
    /\ \E i, j \in 1..3 :
          i # j /\ output.data_list[i].RawDate = output.data_list[j].RawDate

\* a directory that was listed and holds no file at all
EmptyRemote == Remote(TRUE, FALSE, <<>>)

\* C11: a refresh whose connect or whose listing failed never returns what a
\* refresh returns that listed a directory without documents: neither
\* get_newest_files nor fetch_and_process_data gives the two the same value.
C11_EmptyDistinctFromFailure ==
    (phase = "returned" /\ TransportOf(input) # "listed") =>
        /\ output.result # fetch_and_process_data(EmptyRemote)
        /\ TransportOf(input) = "list_failed" =>
              output.newest_files
                  # get_newest_files(EmptyRemote.file_list, MAX_FILES)

(***************************************************************************)
(* Claims about the push publication (SpecPublish).                        *)
(***************************************************************************)
\* the publish calls one call of publish_to_mqtt has to make for the list
SubSteps(records) ==
    <<Topic("last_update"), Topic("transactions")>>
    \o [i \in 1..Len(records) |-> TransactionTopic(records[i])]
    \o <<Topic("total_quantity"), Topic("article_counts")>>

\* C12: when publish_to_mqtt has returned, every sub-step was attempted:
\* the last-update marker, the transactions message, one message per record,
\* the total quantity and the article counts, whichever of them failed.
C12_AllSubStepsAttempted ==
    phase = "returned" =>
        [k \in 1..Len(output.published) |-> output.published[k].topic]
            = SubSteps(input.data_list)

(***************************************************************************)
(* Claims about the scheduler (FairSpec, Spec).                            *)
(***************************************************************************)
Due == now - last_update_time >= UPDATE_INTERVAL

\* the scheduler has called update_data and the call has not returned
Invoked == pc["sched"] \in {"update_data", "blocked"} \cup InCycle

\* one poll of the scheduler: it calls update_data exactly when the refresh
\* is due, and the sleep it starts otherwise is no longer than the interval
PollDecides ==
    (pc["sched"] = "check" /\ pc'["sched"] # "check") =>
        /\ pc'["sched"] = "update_data" <=> Due
        /\ pc'["sched"] # "update_data" =>
              pc'["sched"] = "sleep" /\ sleep_left' <= UPDATE_INTERVAL

\* C13: last_update_time starts UPDATE_INTERVAL in the past, so the refresh is
\* due when the process starts; a poll calls update_data exactly when
\* now - last_update_time >= UPDATE_INTERVAL and sleeps no longer than the
\* interval otherwise; once the scheduler runs, a due refresh is eventually
\* invoked by it (unless another refresh ends the due state first).
C13_DueRefreshInvoked ==
    /\ Due
    /\ [][PollDecides]_vars
    /\ (pc["sched"] # "not_started" /\ Due) ~> (Invoked \/ ~Due)

\* the scheduler has polled at the very instant the refresh became due and
\* has called update_data
C13_Witness ==
    /\ pc["sched"] = "update_data"
    /\ pc["main"] = "serving"
    /\ now - last_update_time = UPDATE_INTERVAL

\* the scheduler takes data_lock in this step and starts its refresh cycle
SchedAcquires == pc["sched"] \in {"update_data", "blocked"} /\ pc'["sched"] = "fetching"

\* C14: whenever the scheduler acquires data_lock for a refresh, the refresh
\* is still due: no refresh of a request handler has set last_update_time
\* between the scheduler's poll and its taking the lock.
C14_StillDueAtAcquire == [][SchedAcquires => Due]_vars

====
